---- MODULE Spec2Model ----
(***************************************************************************)
(* Model of the activation-maximization engine (feature_visualizer.py):    *)
(* FeatureVisualizer.generate_image, its NeuronActivationHook and the      *)
(* layer resolution it shares with LayerInspector (layer_inspector.py),    *)
(* and of batch_generate (batch.py), which calls both.                     *)
(*                                                                         *)
(* Tensors are small: an image has 3 channels of image_size x image_size   *)
(* pixels, a pixel is a fixed-point number in hundredths.  The network is  *)
(* a fixed small object graph with the kinds of sub-component the code     *)
(* distinguishes (see Modules below).                                      *)
(***************************************************************************)
EXTENDS Integers, Sequences, FiniteSets, TLC

\* ------------------------------------------------------------------ bounds
MaxIter == 3
MaxBlur == 2
MaxSize == 2
MaxSeed == 1
NumThreads == 2
MaxCalls == 3
MaxIndex == 3

Threads == 1..NumThreads
MainThread == 1

\* --------------------------------------------------------- optional values
\* Python's None is the empty sequence, a present value v is <<v>>.
None == << >>
Some(v) == <<v>>
IsNone(o) == o = << >>
Val(o) == o[1]

\* ------------------------------------------------------------ the network
\* An object reachable from the model is named by its attribute path.
Model == << >>
Visual == <<"visual">>

\* nn.Module objects of the network: the visual encoder with a pass-through
\* input stage (pre), a convolution, a container with one block, a dense
\* layer and a private sub-module; and the text transformer.
Modules ==
    { Model, Visual, <<"visual", "pre">>, <<"visual", "conv1">>,
      <<"visual", "blocks">>, <<"visual", "blocks", "0">>,
      <<"visual", "fc">>, <<"visual", "_aux">>, <<"transformer">> }

\* Named children of a module (nn.Module._modules).
SubModules(m) ==
    CASE m = Model -> {"visual", "transformer"}
      [] m = Visual -> {"pre", "conv1", "blocks", "fc", "_aux"}
      [] m = <<"visual", "blocks">> -> {"0"}
      [] OTHER -> {}

\* Attributes of an object that are not sub-modules: every module has the
\* flag `training`, the visual encoder has the parameter `proj`.
OtherAttrs(m) ==
    IF m \in Modules
    THEN {"training"} \cup (IF m = Visual THEN {"proj"} ELSE {})
    ELSE {}

HasAttr(m, part) == part \in SubModules(m) \cup OtherAttrs(m)
GetAttr(m, part) == Append(m, part)

\* Sub-modules that self.model.visual(x) calls, in call order, and the
\* rank and axis-1 size of what each returns for a batch of one image.
ForwardOrder ==
    << <<"visual", "pre">>, <<"visual", "conv1">>,
       <<"visual", "blocks", "0">>, <<"visual", "blocks">>,
       <<"visual", "fc">>, <<"visual", "_aux">>, Visual >>

OnForwardPath(m) == \E i \in 1..Len(ForwardOrder) : ForwardOrder[i] = m

OutputRank(m) ==
    CASE m \in { <<"visual", "pre">>, <<"visual", "conv1">> } -> 4
      [] m \in { <<"visual", "blocks">>, <<"visual", "blocks", "0">> } -> 3
      [] OTHER -> 2

OutputAxisSize(m) ==
    CASE m = <<"visual", "pre">> -> 3
      [] m \in { <<"visual", "blocks">>, <<"visual", "blocks", "0">> } -> 1
      [] OTHER -> 2

\* The pass-through stage returns its input tensor itself.
ReturnsItsInput(m) == m = <<"visual", "pre">>

\* --------------------------------------------------------------- constants
\* Pixels are in hundredths; NaN stands for the float not-a-number.
NaN == 999999
LearningRate == 1
ClampLo == -200
ClampHi == 200
KernelSize == 3
MeanE6 == <<481455, 457828, 408211>>
StdE4 == <<2686, 2613, 2758>>

\* torch's global generator: a state in 0..RngMod-1.
RngMod == 3
DefaultRng == 0


\* ------------------------------------------------------------ tensor maths
Abs(x) == IF x < 0 THEN -x ELSE x
Max(a, b) == IF a > b THEN a ELSE b
Min(a, b) == IF a < b THEN a ELSE b

RECURSIVE Sum(_, _)
Sum(f, S) ==
    IF S = {} THEN 0
    ELSE LET x == CHOOSE y \in S : TRUE IN f[x] + Sum(f, S \ {x})

\* Index set of a tensor of shape (1, 3, s, s): <<channel, row, column>>.
Pix(s) == (0..2) \X (0..(s - 1)) \X (0..(s - 1))

HasNaN(t) == \E p \in DOMAIN t : t[p] = NaN

\* torch.randn(1, 3, s, s) drawn from generator state r, and the state the
\* generator is left in.
Randn(r, s) ==
    [p \in Pix(s) |->
        (((r * 37 + p[1] * 11 + p[2] * 6 + p[3] * 3) % 7) - 3) * 90]

RngAfter(r, s) == (r + 1 + 3 * s * s) % RngMod

ManualSeed(seed) == seed % RngMod

\* transforms.Normalize: (pixel - mean) / std per channel.
Normalize(img) ==
    [p \in DOMAIN img |->
        IF img[p] = NaN THEN NaN
        ELSE (img[p] * 10000 - MeanE6[p[1] + 1]) \div StdE4[p[1] + 1]]

\* Mean of the entries of tensor t at the positions S; the mean of no
\* entries is NaN.
MeanOver(t, S) ==
    IF S = {} \/ (\E p \in S : t[p] = NaN) THEN NaN
    ELSE Sum(t, S) \div Cardinality(S)

TotalVariation(img, s) ==
    LET D1 == {p \in Pix(s) : p[3] < s - 1}
        D2 == {p \in Pix(s) : p[2] < s - 1}
        diff1 == [p \in D1 |-> Abs(img[p] - img[<<p[1], p[2], p[3] + 1>>])]
        diff2 == [p \in D2 |-> Abs(img[p] - img[<<p[1], p[2] + 1, p[3]>>])]
    IN  IF D1 = {} \/ D2 = {} \/ HasNaN(img) THEN NaN
        ELSE Sum(diff1, D1) \div Cardinality(D1)
             + Sum(diff2, D2) \div Cardinality(D2)

\* image.data -= 0.01 * tv_loss
SubtractTV(img, tv) ==
    [p \in DOMAIN img |->
        IF tv = NaN \/ img[p] = NaN THEN NaN ELSE img[p] - tv \div 100]

\* F.avg_pool2d(image, kernel_size, stride=1, padding=kernel_size // 2):
\* zero padding, the padded entries count in the divisor.
ApplyBlur(img, s, kernel_size) ==
    LET k == IF kernel_size % 2 = 0 THEN kernel_size + 1 ELSE kernel_size
        padding == k \div 2
        Window(p) == {q \in Pix(s) : /\ q[1] = p[1]
                                     /\ Abs(q[2] - p[2]) <= padding
                                     /\ Abs(q[3] - p[3]) <= padding}
    IN  [p \in DOMAIN img |->
            IF \E q \in Window(p) : img[q] = NaN THEN NaN
            ELSE Sum(img, Window(p)) \div (k * k)]

\* image.data.clamp_(-2.0, 2.0); a NaN stays a NaN.
ClampImage(img) ==
    [p \in DOMAIN img |->
        IF img[p] = NaN THEN NaN ELSE Max(ClampLo, Min(ClampHi, img[p]))]

\* A conversion that scales the denormalized value without clamping it to
\* [0, 1] first.
ToByteUnclamped(v, ch, nanB) ==
    IF v = NaN THEN nanB
    ELSE LET d == v * StdE4[ch + 1] + MeanE6[ch + 1]
         IN  (d * 255) \div 1000000

\* _tensor_to_image: permute to (row, column, channel), denormalize, clamp
\* to [0, 1], scale by 255 and cast to uint8.  The cast of a NaN is whatever
\* the platform's float-to-integer conversion yields (nanB).
ToByte(v, ch, nanB) ==
    IF v = NaN THEN nanB
    ELSE LET d == v * StdE4[ch + 1] + MeanE6[ch + 1]
             cl == Max(0, Min(1000000, d))
         IN  (cl * 255) \div 1000000

TensorToImage(img, s, nanB) ==
    [q \in (0..(s - 1)) \X (0..(s - 1)) \X (0..2) |->
        ToByte(img[<<q[3], q[1], q[2]>>], q[3], nanB)]


\* -------------------------------------------------------- layer directory
\* nn.Module.named_modules(): the module itself under the empty name, then
\* every descendant under its dotted name (here: the sequence of its parts).
RECURSIVE NamedModules(_)
NamedModules(m) ==
    {<< >>} \cup
    UNION { { <<n>> \o r : r \in NamedModules(GetAttr(m, n)) } : n \in SubModules(m) }

\* name.startswith('_') for a dotted name.
StartsWithUnderscore(name) == Head(name) \in {"_aux"}

\* LayerInspector._extract_layers: the keys of layers_info.
ExtractLayers ==
    { <<"visual">> \o name : name \in
        { n \in NamedModules(Visual) : n # << >> /\ ~StartsWithUnderscore(n) } }

\* LayerInspector.get_layer_names, as a set.
GetLayerNames == ExtractLayers

\* What LayerInspector reads from a module: its class, and the attributes
\* out_features, out_channels, num_channels and weight (None: the module has
\* no such attribute; for weight, Some(None) is an attribute that is None,
\* Some(Some(shape)) a tensor of that shape).  The block is a LayerNorm over
\* 1024 features, wider than the cap of the unit listing.
TypeName(m) ==
    CASE m = <<"visual", "conv1">> -> "Conv2d"
      [] m = <<"visual", "fc">> -> "Linear"
      [] m = <<"visual", "blocks", "0">> -> "LayerNorm"
      [] m = <<"visual", "blocks">> -> "Sequential"
      [] m = Visual -> "VisionTransformer"
      [] m = Model -> "CLIP"
      [] m = <<"transformer">> -> "Transformer"
      [] OTHER -> "Identity"

OutFeatures(m) == IF m = <<"visual", "fc">> THEN Some(2) ELSE None
OutChannels(m) == IF m = <<"visual", "conv1">> THEN Some(2) ELSE None
NumChannels(m) == None
Weight(m) ==
    CASE m = <<"visual", "conv1">> -> Some(Some(<<2, 3, 1, 1>>))
      [] m = <<"visual", "fc">> -> Some(Some(<<2, 12>>))
      [] m = <<"visual", "blocks", "0">> -> Some(Some(<<1024>>))
      [] OTHER -> None

RECURSIVE Product(_)
Product(shape) ==
    IF shape = << >> THEN 1 ELSE Head(shape) * Product(Tail(shape))

\* sum(p.numel() for p in layer.parameters()): the weights of the module and
\* of its descendants.
RECURSIVE ParameterCount(_)
ParameterCount(m) ==
    LET own == IF IsNone(Weight(m)) \/ IsNone(Val(Weight(m))) THEN 0
               ELSE Product(Val(Val(Weight(m))))
        kids == [n \in SubModules(m) |-> ParameterCount(GetAttr(m, n))]
    IN  own + Sum(kids, SubModules(m))

\* The characters of the name parts, as code points, and of '.'.
Dot == 46
Codes(part) ==
    CASE part = "visual" -> <<118, 105, 115, 117, 97, 108>>
      [] part = "pre" -> <<112, 114, 101>>
      [] part = "conv1" -> <<99, 111, 110, 118, 49>>
      [] part = "blocks" -> <<98, 108, 111, 99, 107, 115>>
      [] part = "0" -> <<48>>
      [] part = "fc" -> <<102, 99>>
      [] part = "_aux" -> <<95, 97, 117, 120>>
      [] part = "proj" -> <<112, 114, 111, 106>>
      [] part = "transformer" ->
            <<116, 114, 97, 110, 115, 102, 111, 114, 109, 101, 114>>
      [] part = "nosuch" -> <<110, 111, 115, 117, 99, 104>>

\* '.'.join(parts) as a string of code points.
RECURSIVE Dotted(_)
Dotted(name) ==
    IF Len(name) = 1 THEN Codes(Head(name))
    ELSE Codes(Head(name)) \o <<Dot>> \o Dotted(Tail(name))

\* Python's str.__lt__: the first differing character decides, a proper
\* prefix is smaller.
RECURSIVE StrLess(_, _)
StrLess(x, y) ==
    IF y = << >> THEN FALSE
    ELSE IF x = << >> THEN TRUE
    ELSE IF Head(x) # Head(y) THEN Head(x) < Head(y)
    ELSE StrLess(Tail(x), Tail(y))

NameLess(a, b) == StrLess(Dotted(a), Dotted(b))

\* A listing in reverse order.
RECURSIVE SortedDescending(_)
SortedDescending(S) ==
    IF S = {} THEN << >>
    ELSE LET hi == CHOOSE x \in S : \A y \in S \ {x} : NameLess(y, x)
         IN  <<hi>> \o SortedDescending(S \ {hi})

\* sorted(list(keys)) for a set of distinct names.
RECURSIVE Sorted(_)
Sorted(S) ==
    IF S = {} THEN << >>
    ELSE LET lo == CHOOSE x \in S : \A y \in S \ {x} : NameLess(x, y)
         IN  <<lo>> \o Sorted(S \ {lo})

\* self.layers_info: the dict from each extracted key to its module.
LayersInfo == [k \in ExtractLayers |-> k]

\* LayerInspector.get_layer_names, as the list it returns.
GetLayerNamesList == Sorted(DOMAIN LayersInfo)

\* LayerInspector.get_layer: self.layers_info.get(layer_name).
GetLayer(layer_name) ==
    IF layer_name \in DOMAIN LayersInfo THEN Some(LayersInfo[layer_name])
    ELSE None

\* The empty dict and the empty list.
EmptyInfo ==
    [empty |-> TRUE, name |-> << >>, type |-> "", parameters |-> 0,
     out_features |-> None, num_channels |-> None]

\* LayerInspector.get_layer_info.
GetLayerInfo(layer_name) ==
    LET layer == GetLayer(layer_name) IN
    IF IsNone(layer) THEN [raised |-> "none", value |-> EmptyInfo]
    ELSE LET m == Val(layer) IN
         [raised |-> "none",
          value |->
            [empty |-> FALSE, name |-> layer_name, type |-> TypeName(m),
             parameters |-> ParameterCount(m),
             out_features |-> OutFeatures(m),
             num_channels |-> IF IsNone(OutFeatures(m)) THEN NumChannels(m)
                              ELSE None]]

\* min(num_neurons, 768)
UnitCap == 768

\* The names f"{category}_{i}" counted from one.
NamesFromOne(category, n) == [i \in 1..n |-> <<category, i>>]

\* The names f"{category}_{i}" for i in range(n), each as <<category, i>>.
Names(category, n) == [i \in 1..n |-> <<category, i - 1>>]

\* get_neuron_names once the layer is found.  len(layer.weight.shape) on a
\* weight that is None raises AttributeError.
NeuronNamesOf(m) ==
    LET w == Weight(m)
        num_neurons ==
            IF ~IsNone(OutFeatures(m)) THEN Val(OutFeatures(m))
            ELSE IF ~IsNone(w) /\ Len(Val(Val(w))) > 0
                 THEN Head(Val(Val(w)))
                 ELSE 0
    IN  IF IsNone(OutFeatures(m)) /\ ~IsNone(w) /\ IsNone(Val(w))
        THEN [raised |-> "AttributeError", value |-> << >>]
        ELSE IF num_neurons = 0 THEN [raised |-> "none", value |-> << >>]
        ELSE IF TypeName(m) = "Linear"
             THEN [raised |-> "none", value |-> Names("neuron", num_neurons)]
        ELSE IF TypeName(m) = "Conv2d"
             THEN [raised |-> "none",
                   value |-> Names("channel",
                                   IF ~IsNone(OutChannels(m))
                                   THEN Val(OutChannels(m))
                                   ELSE num_neurons)]
        ELSE [raised |-> "none",
              value |-> Names("unit", Min(num_neurons, UnitCap))]

\* A listing that takes the key for granted: self.layers_info[layer_name]
\* raises KeyError for a path that is not a key.
GetNeuronNamesStrict(layer_name) ==
    LET layer == GetLayer(layer_name) IN
    IF IsNone(layer) THEN [raised |-> "KeyError", value |-> << >>]
    ELSE NeuronNamesOf(Val(layer))

\* LayerInspector.get_neuron_names.
GetNeuronNames(layer_name) ==
    LET layer == GetLayer(layer_name) IN
    IF IsNone(layer) THEN [raised |-> "none", value |-> << >>]
    ELSE NeuronNamesOf(Val(layer))

\* FeatureVisualizer._get_layer_by_name on the parts of layer_name.split('.'):
\* None, or the object the attribute path leads to.
RECURSIVE Walk(_, _)
Walk(module, parts) ==
    IF parts = << >> THEN Some(module)
    ELSE IF HasAttr(module, Head(parts))
         THEN Walk(GetAttr(module, Head(parts)), Tail(parts))
         ELSE None

\* A walk that starts at the visual encoder instead of the model.
GetLayerByNameFromVisual(layer_name) == Walk(Visual, layer_name)

GetLayerByName(layer_name) == Walk(Model, layer_name)

\* str.split('.') on a string of code points: the pieces between the dots.
RECURSIVE SplitFrom(_, _)
SplitFrom(rest, piece) ==
    IF rest = << >> THEN <<piece>>
    ELSE IF Head(rest) = Dot
         THEN <<piece>> \o SplitFrom(Tail(rest), << >>)
         ELSE SplitFrom(Tail(rest), Append(piece, Head(rest)))

Split(str) == SplitFrom(str, << >>)

\* The attribute name spelled by a string of code points ("?" for a
\* spelling that is no attribute name of this network).
PartNames ==
    {"visual", "pre", "conv1", "blocks", "0", "fc", "_aux", "proj",
     "transformer", "nosuch"}
PartOf(codes) ==
    IF \E part \in PartNames : Codes(part) = codes
    THEN CHOOSE part \in PartNames : Codes(part) = codes
    ELSE "?"

\* FeatureVisualizer._get_layer_by_name on the string it is given.
GetLayerByNameStr(str) ==
    LET pieces == Split(str)
    IN  GetLayerByName([i \in 1..Len(pieces) |-> PartOf(pieces[i])])

\* ------------------------------------------------------------- the hook
\* What a sub-module returns in the forward pass of thread c on image img:
\* the pass-through stage returns the normalized image (still attached to
\* the autograd graph of the image), every other output is computed under
\* torch.no_grad() and is detached; its values are not modelled.
LayerOutput(m, c, img) ==
    [owner |-> c, layer |-> m,
     data |-> IF ReturnsItsInput(m) THEN Normalize(img) ELSE << >>]

\* NeuronActivationHook.get_activation_value on hook.activation (an optional
\* LayerOutput) and hook.neuron_index (an optional integer).
GetActivationValue(act, neuron_index) ==
    IF IsNone(act)
    THEN [raised |-> "none", requires_grad |-> FALSE, val |-> 0,
          owner |-> 0, chans |-> {}, reduced |-> 0]
    ELSE
      LET out == Val(act)
          rank == OutputRank(out.layer)
          size == OutputAxisSize(out.layer)
          indexed == rank \in {4, 2} /\ ~IsNone(neuron_index)
          i == IF indexed THEN Val(neuron_index) ELSE 0
          chans == IF indexed THEN {IF i < 0 THEN i + size ELSE i}
                   ELSE 0..(size - 1)
      IN  IF indexed /\ (i >= size \/ i < -size)
          THEN [raised |-> "IndexError", requires_grad |-> FALSE, val |-> 0,
                owner |-> out.owner, chans |-> {}, reduced |-> rank]
          ELSE [raised |-> "none",
                requires_grad |-> ReturnsItsInput(out.layer),
                val |-> IF ReturnsItsInput(out.layer)
                        THEN MeanOver(out.data,
                                      {p \in DOMAIN out.data : p[1] \in chans})
                        ELSE 0,
                owner |-> out.owner, chans |-> chans, reduced |-> rank]

\* optimizer.step() of Adam on the one parameter `image`: nothing when
\* image.grad is None; otherwise each pixel moves by lr against the sign of
\* its gradient (the loss is linear in the image, so the bias-corrected
\* moment ratio is the sign).  g is the optional set of channels whose
\* pixels have a negative loss gradient.
AdamStep(img, g) ==
    IF IsNone(g) THEN img
    ELSE [p \in DOMAIN img |->
            IF img[p] = NaN THEN NaN
            ELSE IF p[1] \in Val(g) THEN img[p] + LearningRate ELSE img[p]]

\* A finally clause that forgets the handle.
HandleRemoveForgets(hk, target, c) == hk

\* handle.remove(): thread c's hook is taken out of the module's hooks.
HandleRemove(hk, target, c) ==
    [hk EXCEPT ![target] = @ \ {c}]

\* (iteration + 1) % max(1, num_iterations // 20) == 0
ProgressDue(iter, num_iterations) ==
    (iter + 1) % Max(1, num_iterations \div 20) = 0

\* (iteration + 1) % blur_every == 0, for blur_every > 0
BlurDue(iter, blur_every) == (iter + 1) % blur_every = 0


\* ------------------------------------------------------------------ inputs
LayerNames ==
    { <<"visual", "pre">>, <<"visual", "conv1">>, <<"visual", "blocks", "0">>,
      <<"visual", "fc">>, Visual, <<"visual", "proj">>, <<"transformer">>,
      <<"visual", "nosuch">> }
Indices == {-1, 0, 2, 3}
Sizes == (-1)..MaxSize
Iterations == (-1)..MaxIter
BlurPeriods == 0..MaxBlur
Seeds == {None} \cup {Some(n) : n \in 0..MaxSeed}
Callbacks == {"none", "returns", "raises"}
CallbackReturns == BOOLEAN

ArgSet ==
    [layer_name : LayerNames, neuron_index : {Some(i) : i \in Indices},
     image_size : Sizes, num_iterations : Iterations,
     blur_every : BlurPeriods, seed : Seeds, progress_callback : Callbacks]

\* The calls whose runs are compared with one another.
RunArgs ==
    { a \in ArgSet :
        /\ a.layer_name \in { <<"visual", "pre">>, <<"visual", "conv1">> }
        /\ a.neuron_index = Some(0)
        /\ a.image_size = MaxSize
        /\ a.num_iterations >= 0
        /\ a.blur_every = IF ReturnsItsInput(a.layer_name) THEN MaxBlur ELSE 1
        /\ a.progress_callback # "raises" }

NoArgs ==
    [layer_name |-> << >>, neuron_index |-> None, image_size |-> 0,
     num_iterations |-> 0, blur_every |-> 0, seed |-> None,
     progress_callback |-> "none"]

NoActivation == GetActivationValue(None, None)

\* ------------------------------------------------------------------- batch
\* list(range(start, stop, step)) for a step that is not 0.
RECURSIVE PyRange(_, _, _)
PyRange(start, stop, step) ==
    IF (step > 0 /\ start >= stop) \/ (step < 0 /\ start <= stop) THEN << >>
    ELSE <<start>> \o PyRange(start + step, stop, step)

\* if end > len(neuron_names): end = len(neuron_names)
ClipEnd(end, count) == IF end > count THEN count ELSE end

\* A batch that regenerates whatever is there.
SkipsNothing(exists, skip_existing) == FALSE

\* if filepath.exists() and skip_existing
Skips(exists, skip_existing) == exists /\ skip_existing

\* neuron_names[neuron_idx]: a negative index counts from the end of the list.
NeuronName(neuron_names, neuron_idx) ==
    IF neuron_idx >= 0 THEN neuron_names[neuron_idx + 1]
    ELSE neuron_names[Len(neuron_names) + neuron_idx + 1]

\* The arguments batch_generate is called with, and the output files that
\* are in output_dir already (by unit index).  The layers: two with units, one
\* without, one that is not in the network.
BatchLayers ==
    { <<"visual", "conv1">>, <<"visual", "fc">>, <<"visual", "pre">>,
      <<"visual", "nosuch">> }
BatchInputs ==
    [layer_name : BatchLayers, start : (-1)..MaxIndex, end : (-1)..MaxIndex,
     step : (-1)..2, iterations : 0..1, skip_existing : BOOLEAN,
     files : SUBSET (0..1)]

\* The generate_image call batch_generate makes for one unit (seed_base 0).
GenerateArgs(layer_name, neuron_idx, iterations) ==
    [layer_name |-> layer_name, neuron_index |-> Some(neuron_idx),
     image_size |-> 1, num_iterations |-> iterations, blur_every |-> 1,
     seed |-> Some(0 + neuron_idx), progress_callback |-> "returns"]

\* No batch_generate call yet.
NoBatch ==
    [phase |-> "idle", layer_name |-> << >>, start |-> 0, end |-> 0,
     step |-> 0, iterations |-> 0, skip_existing |-> FALSE, files |-> {},
     neuron_names |-> << >>, neuron_indices |-> << >>, i |-> 1,
     metadata |-> << >>, log |-> << >>, failed |-> {}]

\* ------------------------------------------------------------------- state
VARIABLES
    rng,        \* state of torch's global random generator
    nanByte,    \* what this platform's uint8 cast makes of a NaN
    emptyOk,    \* whether this platform's Image.fromarray takes an empty array
    hooks,      \* module -> threads whose forward hook is registered on it
    pc,         \* thread -> where its generate_image call stands
    args,       \* thread -> arguments of its call
    image,      \* thread -> the image tensor of its call
    grad,       \* thread -> image.grad of its call (optional channel set)
    optSteps,   \* thread -> optimizer steps taken in its call
    hookAct,    \* thread -> hook.activation of its hook (optional output)
    activation, \* thread -> result of hook.get_activation_value()
    iteration,  \* thread -> loop variable
    cbLog,      \* thread -> the calls made to progress_callback
    traj,       \* thread -> image at the end of each iteration so far
    outcome,    \* thread -> "none", "image" or the exception raised
    raster,     \* thread -> the returned pixel array
    ref,        \* a remembered earlier call (optional), for comparing runs
    weights,    \* network parameter -> its value
    calls,      \* the LayerInspector calls made so far, with their results
    steps,      \* thread -> what its call did to the image so far, in order
    batch       \* the batch_generate call: its arguments, locals and files

vars == <<rng, nanByte, emptyOk, hooks, pc, args, image, grad, optSteps, hookAct,
          activation, iteration, cbLog, traj, outcome, raster, ref, weights,
          calls, steps, batch>>

NanBytes == {0, 255}

\* The parameters of the network (nn.Parameter objects), and the values they
\* have when the FeatureVisualizer is constructed.
Parameters ==
    { <<"visual", "conv1", "weight">>, <<"visual", "blocks", "0", "weight">>,
      <<"visual", "fc", "weight">>, <<"visual", "proj">> }
InitialWeights == [p \in Parameters |-> 10 * Len(p)]

Init ==
    /\ rng = DefaultRng
    /\ nanByte \in NanBytes
    /\ emptyOk \in BOOLEAN
    /\ hooks = [m \in Modules |-> {}]
    /\ pc = [c \in Threads |-> "idle"]
    /\ args = [c \in Threads |-> NoArgs]
    /\ image = [c \in Threads |-> << >>]
    /\ grad = [c \in Threads |-> None]
    /\ optSteps = [c \in Threads |-> 0]
    /\ hookAct = [c \in Threads |-> None]
    /\ activation = [c \in Threads |-> NoActivation]
    /\ iteration = [c \in Threads |-> 0]
    /\ cbLog = [c \in Threads |-> << >>]
    /\ traj = [c \in Threads |-> << >>]
    /\ outcome = [c \in Threads |-> "none"]
    /\ raster = [c \in Threads |-> << >>]
    /\ ref = None
    /\ weights = InitialWeights
    /\ calls = << >>
    /\ steps = [c \in Threads |-> << >>]
    /\ batch = NoBatch

Target(c) == Val(GetLayerByName(args[c].layer_name))

\* Thread c's call has just done `what` in its current iteration.
Did(c, what) ==
    steps' = [steps EXCEPT ![c] =
                Append(@, [iter |-> iteration[c], op |-> what])]

\* An exception raised inside the try block: control goes to the finally
\* clause with the exception pending.
RaiseInTry(c, exc) ==
    /\ outcome' = [outcome EXCEPT ![c] = exc]
    /\ pc' = [pc EXCEPT ![c] = "finally"]

\* A call that leaves the generator as the previous call left it.
SeedRngSkipped(seed, r) == r

\* torch.manual_seed(seed) when a seed is given.
SeedRng(seed, r) == IF IsNone(seed) THEN r ELSE ManualSeed(Val(seed))

\* generate_image is called with arguments a: seeding, the random image and
\* the optimizer.  torch.randn raises on a negative size.
Begin(c, a) ==
    /\ pc[c] = "idle"
    /\ args' = [args EXCEPT ![c] = a]
    /\ LET r == SeedRng(a.seed, rng) IN
         IF a.image_size < 0
         THEN /\ rng' = r
              /\ outcome' = [outcome EXCEPT ![c] = "RuntimeError"]
              /\ pc' = [pc EXCEPT ![c] = "done"]
              /\ UNCHANGED image
         ELSE /\ rng' = RngAfter(r, a.image_size)
              /\ image' = [image EXCEPT ![c] = Randn(r, a.image_size)]
              /\ pc' = [pc EXCEPT ![c] = "resolve"]
              /\ UNCHANGED outcome
    /\ UNCHANGED <<weights, calls, steps, nanByte, emptyOk, hooks, grad, optSteps, hookAct, activation,
                   iteration, cbLog, traj, raster, ref>>

Start(c) == pc[c] = "idle" /\ UNCHANGED batch /\ \E a \in ArgSet : Begin(c, a)

\* _get_layer_by_name, the None test, and register_forward_hook.
RegisterHook(c) ==
    /\ pc[c] = "resolve"
    /\ LET found == GetLayerByName(args[c].layer_name) IN
         IF IsNone(found)
         THEN /\ outcome' = [outcome EXCEPT ![c] = "ValueError"]
              /\ pc' = [pc EXCEPT ![c] = "done"]
              /\ UNCHANGED hooks
         ELSE IF Val(found) \notin Modules
         THEN /\ outcome' = [outcome EXCEPT ![c] = "AttributeError"]
              /\ pc' = [pc EXCEPT ![c] = "done"]
              /\ UNCHANGED hooks
         ELSE /\ hooks' = [hooks EXCEPT ![Val(found)] = @ \cup {c}]
              /\ pc' = [pc EXCEPT ![c] = "loop"]
              /\ UNCHANGED outcome
    /\ UNCHANGED <<batch, weights, calls, steps, rng, nanByte, emptyOk, args, image, grad, optSteps, hookAct,
                   activation, iteration, cbLog, traj, raster, ref>>

\* Top of an iteration: zero_grad, normalize, and the forward pass of the
\* visual encoder under torch.no_grad(); every hook registered on a module
\* the pass calls captures that module's output.  The encoder rejects an
\* empty image.
Forward(c) ==
    /\ pc[c] = "loop"
    /\ iteration[c] < args[c].num_iterations
    /\ grad' = [grad EXCEPT ![c] = None]
    /\ IF args[c].image_size = 0
       THEN /\ RaiseInTry(c, "RuntimeError")
            /\ UNCHANGED hookAct
       ELSE /\ hookAct' =
                 [h \in Threads |->
                    IF \E m \in Modules : OnForwardPath(m) /\ h \in hooks[m]
                    THEN Some(LayerOutput(
                            CHOOSE m \in Modules :
                                OnForwardPath(m) /\ h \in hooks[m],
                            c, image[c]))
                    ELSE hookAct[h]]
            /\ pc' = [pc EXCEPT ![c] = "activation"]
            /\ UNCHANGED outcome
    /\ UNCHANGED <<batch, weights, calls, steps, rng, nanByte, emptyOk, hooks, args, image, optSteps, activation,
                   iteration, cbLog, traj, raster, ref>>

\* range(num_iterations) is exhausted.
LoopExit(c) ==
    /\ pc[c] = "loop"
    /\ iteration[c] >= args[c].num_iterations
    /\ pc' = [pc EXCEPT ![c] = "finally"]
    /\ UNCHANGED <<batch, weights, calls, steps, rng, nanByte, emptyOk, hooks, args, image, grad, optSteps, hookAct,
                   activation, iteration, cbLog, traj, outcome, raster, ref>>

\* activation = hook.get_activation_value()
GetActivation(c) ==
    /\ pc[c] = "activation"
    /\ LET a == GetActivationValue(hookAct[c], args[c].neuron_index) IN
         IF a.raised # "none"
         THEN /\ RaiseInTry(c, a.raised)
              /\ UNCHANGED activation
         ELSE /\ activation' = [activation EXCEPT ![c] = a]
              /\ pc' = [pc EXCEPT ![c] = "backward"]
              /\ UNCHANGED outcome
    /\ UNCHANGED <<batch, weights, calls, steps, rng, nanByte, emptyOk, hooks, args, image, grad, optSteps, hookAct,
                   iteration, cbLog, traj, raster, ref>>

\* loss = -activation; loss.backward(): raises when the activation is not
\* attached to an autograd graph, else accumulates into the .grad of the
\* image the activation was computed from.
Backward(c) ==
    /\ pc[c] = "backward"
    /\ IF ~activation[c].requires_grad
       THEN /\ RaiseInTry(c, "RuntimeError")
            /\ UNCHANGED grad
       ELSE /\ grad' = [grad EXCEPT ![activation[c].owner] =
                          IF IsNone(@) THEN Some(activation[c].chans)
                          ELSE Some(Val(@) \cup activation[c].chans)]
            /\ pc' = [pc EXCEPT ![c] = "step"]
            /\ UNCHANGED outcome
    /\ UNCHANGED <<batch, weights, calls, steps, rng, nanByte, emptyOk, hooks, args, image, optSteps, hookAct,
                   activation, iteration, cbLog, traj, raster, ref>>

\* An optimizer that was also given the parameters of the network and
\* steps them along with the image.
OptimizerStepTrains(c) ==
    /\ pc[c] = "step"
    /\ image' = [image EXCEPT ![c] = AdamStep(@, grad[c])]
    /\ weights' = [p \in Parameters |-> weights[p] - LearningRate]
    /\ Did(c, "step")
    /\ optSteps' = [optSteps EXCEPT ![c] = @ + 1]
    /\ pc' = [pc EXCEPT ![c] = "tv"]
    /\ UNCHANGED <<batch, calls, rng, nanByte, emptyOk, hooks, args, grad, hookAct,
                   activation, iteration, cbLog, traj, outcome, raster, ref>>

\* optimizer.step()
OptimizerStep(c) ==
    /\ pc[c] = "step"
    /\ image' = [image EXCEPT ![c] = AdamStep(@, grad[c])]
    /\ Did(c, "step")
    /\ optSteps' = [optSteps EXCEPT ![c] = @ + 1]
    /\ pc' = [pc EXCEPT ![c] = "tv"]
    /\ UNCHANGED <<batch, weights, calls, rng, nanByte, emptyOk, hooks, args, grad, hookAct, activation,
                   iteration, cbLog, traj, outcome, raster, ref>>

\* tv_loss = self._total_variation(image); image.data -= 0.01 * tv_loss
TVRegularize(c) ==
    /\ pc[c] = "tv"
    /\ image' = [image EXCEPT ![c] =
                   SubtractTV(@, TotalVariation(@, args[c].image_size))]
    /\ Did(c, "tv")
    /\ pc' = [pc EXCEPT ![c] = "blur"]
    /\ UNCHANGED <<batch, weights, calls, rng, nanByte, emptyOk, hooks, args, grad, optSteps, hookAct,
                   activation, iteration, cbLog, traj, outcome, raster, ref>>

\* A loop body that clamps first and blurs afterwards.
BlurAfterClamp(c) ==
    /\ pc[c] = "blur"
    /\ IF args[c].blur_every = 0
       THEN /\ RaiseInTry(c, "ZeroDivisionError")
            /\ UNCHANGED <<image, steps>>
       ELSE /\ IF BlurDue(iteration[c], args[c].blur_every)
               THEN /\ image' = [image EXCEPT ![c] =
                          ApplyBlur(ClampImage(@), args[c].image_size,
                                    KernelSize)]
                    /\ steps' = [steps EXCEPT ![c] =
                          @ \o << [iter |-> iteration[c], op |-> "clamp"],
                                  [iter |-> iteration[c], op |-> "blur"] >>]
               ELSE /\ image' = [image EXCEPT ![c] = ClampImage(@)]
                    /\ Did(c, "clamp")
            /\ pc' = [pc EXCEPT ![c] = "progress"]
            /\ UNCHANGED outcome
    /\ UNCHANGED <<batch, weights, calls, rng, nanByte, emptyOk, hooks, args, grad,
                   optSteps, hookAct, activation, iteration, cbLog, traj,
                   raster, ref>>

\* if (iteration + 1) % blur_every == 0: image.data = self._apply_blur(...)
\* The modulo raises ZeroDivisionError for blur_every = 0.
Blur(c) ==
    /\ pc[c] = "blur"
    /\ IF args[c].blur_every = 0
       THEN /\ RaiseInTry(c, "ZeroDivisionError")
            /\ UNCHANGED <<image, steps>>
       ELSE /\ IF BlurDue(iteration[c], args[c].blur_every)
               THEN /\ image' = [image EXCEPT ![c] =
                          ApplyBlur(@, args[c].image_size, KernelSize)]
                    /\ Did(c, "blur")
               ELSE UNCHANGED <<image, steps>>
            /\ pc' = [pc EXCEPT ![c] = "clamp"]
            /\ UNCHANGED outcome
    /\ UNCHANGED <<batch, weights, calls, rng, nanByte, emptyOk, hooks, args, grad,
                   optSteps, hookAct, activation, iteration, cbLog, traj,
                   raster, ref>>

\* image.data.clamp_(-2.0, 2.0)
Clamp(c) ==
    /\ pc[c] = "clamp"
    /\ image' = [image EXCEPT ![c] = ClampImage(@)]
    /\ Did(c, "clamp")
    /\ pc' = [pc EXCEPT ![c] = "progress"]
    /\ UNCHANGED <<batch, weights, calls, rng, nanByte, emptyOk, hooks, args, grad, optSteps, hookAct,
                   activation, iteration, cbLog, traj, outcome, raster, ref>>

\* A loop that lets the callback cancel it: a false return value ends the
\* run after the current iteration.
ProgressCancellable(c) ==
    /\ pc[c] = "progress"
    /\ IF /\ args[c].progress_callback # "none"
          /\ ProgressDue(iteration[c], args[c].num_iterations)
       THEN \/ /\ args[c].progress_callback = "raises"
               /\ RaiseInTry(c, "CallbackError")
               /\ Did(c, "callback")
               /\ UNCHANGED <<cbLog, iteration, traj>>
            \/ \E ret \in CallbackReturns :
                 /\ cbLog' = [cbLog EXCEPT ![c] =
                        Append(@, <<iteration[c] + 1, args[c].num_iterations,
                                    activation[c].val>>)]
                 /\ iteration' = [iteration EXCEPT ![c] =
                        IF ret THEN @ + 1 ELSE args[c].num_iterations]
                 /\ traj' = [traj EXCEPT ![c] = Append(@, image[c])]
                 /\ pc' = [pc EXCEPT ![c] = "loop"]
                 /\ Did(c, "callback")
                 /\ UNCHANGED outcome
       ELSE /\ iteration' = [iteration EXCEPT ![c] = @ + 1]
            /\ traj' = [traj EXCEPT ![c] = Append(@, image[c])]
            /\ pc' = [pc EXCEPT ![c] = "loop"]
            /\ UNCHANGED <<cbLog, outcome, steps>>
    /\ UNCHANGED <<batch, weights, calls, rng, nanByte, emptyOk, hooks, args, image, grad, optSteps, hookAct,
                   activation, raster, ref>>

\* The progress callback, when one is given and due: a callback of kind
\* "raises" raises in this invocation or returns, one of kind "returns"
\* returns; the value returned is dropped.  Then the next iteration.
Progress(c) ==
    /\ pc[c] = "progress"
    /\ IF /\ args[c].progress_callback # "none"
          /\ ProgressDue(iteration[c], args[c].num_iterations)
       THEN \/ /\ args[c].progress_callback = "raises"
               /\ RaiseInTry(c, "CallbackError")
               /\ Did(c, "callback")
               /\ UNCHANGED <<cbLog, iteration, traj>>
            \/ \E ret \in CallbackReturns :
                 /\ cbLog' = [cbLog EXCEPT ![c] =
                        Append(@, <<iteration[c] + 1, args[c].num_iterations,
                                    activation[c].val>>)]
                 /\ iteration' = [iteration EXCEPT ![c] = @ + 1]
                 /\ traj' = [traj EXCEPT ![c] = Append(@, image[c])]
                 /\ pc' = [pc EXCEPT ![c] = "loop"]
                 /\ Did(c, "callback")
                 /\ UNCHANGED outcome
       ELSE /\ iteration' = [iteration EXCEPT ![c] = @ + 1]
            /\ traj' = [traj EXCEPT ![c] = Append(@, image[c])]
            /\ pc' = [pc EXCEPT ![c] = "loop"]
            /\ UNCHANGED <<cbLog, outcome, steps>>
    /\ UNCHANGED <<batch, weights, calls, rng, nanByte, emptyOk, hooks, args, image, grad, optSteps, hookAct,
                   activation, raster, ref>>

\* finally: handle.remove(); a pending exception then leaves the call.
Finally(c) ==
    /\ pc[c] = "finally"
    /\ hooks' = HandleRemove(hooks, Target(c), c)
    /\ pc' = [pc EXCEPT ![c] = IF outcome[c] = "none" THEN "convert" ELSE "done"]
    /\ UNCHANGED <<batch, weights, calls, steps, rng, nanByte, emptyOk, args, image, grad, optSteps, hookAct,
                   activation, iteration, cbLog, traj, outcome, raster, ref>>

\* img_np = self._tensor_to_image(image.detach()); Image.fromarray(img_np).
\* Whether Image.fromarray takes an array without pixels or raises
\* ValueError depends on the imaging library in use (emptyOk).
Convert(c) ==
    /\ pc[c] = "convert"
    /\ IF args[c].image_size = 0 /\ ~emptyOk
       THEN /\ outcome' = [outcome EXCEPT ![c] = "ValueError"]
            /\ UNCHANGED raster
       ELSE /\ raster' = [raster EXCEPT ![c] =
                            TensorToImage(image[c], args[c].image_size, nanByte)]
            /\ outcome' = [outcome EXCEPT ![c] = "image"]
    /\ pc' = [pc EXCEPT ![c] = "done"]
    /\ UNCHANGED <<batch, weights, calls, steps, rng, nanByte, emptyOk, hooks, args, image, grad, optSteps,
                   hookAct, activation, iteration, cbLog, traj, ref>>

\* The caller has the result (or the exception); the call's locals are gone.
\* A remembered call counts the calls completed since it was remembered (up
\* to two: itself and one more).
Leave(c) ==
    /\ pc[c] = "done"
    /\ pc' = [pc EXCEPT ![c] = "idle"]
    /\ args' = [args EXCEPT ![c] = NoArgs]
    /\ image' = [image EXCEPT ![c] = << >>]
    /\ grad' = [grad EXCEPT ![c] = None]
    /\ optSteps' = [optSteps EXCEPT ![c] = 0]
    /\ hookAct' = [hookAct EXCEPT ![c] = None]
    /\ activation' = [activation EXCEPT ![c] = NoActivation]
    /\ iteration' = [iteration EXCEPT ![c] = 0]
    /\ cbLog' = [cbLog EXCEPT ![c] = << >>]
    /\ traj' = [traj EXCEPT ![c] = << >>]
    /\ outcome' = [outcome EXCEPT ![c] = "none"]
    /\ raster' = [raster EXCEPT ![c] = << >>]
    /\ steps' = [steps EXCEPT ![c] = << >>]
    /\ ref' = IF IsNone(ref) THEN ref
              ELSE Some([Val(ref) EXCEPT !.since = Min(@ + 1, 2)])
    /\ UNCHANGED <<weights, calls, rng, nanByte, emptyOk, hooks>>

Return(c) == Leave(c) /\ UNCHANGED batch

\* One thread calling generate_image again and again.
Next ==
    \/ Start(MainThread)
    \/ RegisterHook(MainThread)
    \/ Forward(MainThread)
    \/ LoopExit(MainThread)
    \/ GetActivation(MainThread)
    \/ Backward(MainThread)
    \/ OptimizerStep(MainThread)
    \/ TVRegularize(MainThread)
    \/ Blur(MainThread)
    \/ Clamp(MainThread)
    \/ Progress(MainThread)
    \/ Finally(MainThread)
    \/ Convert(MainThread)
    \/ Return(MainThread)

Spec == Init /\ [][Next]_vars


\* ------------------------------------------------- comparing separate runs
\* The same program, with the result of one completed call kept aside so
\* that later calls can be compared with it.
StartRun(c) ==
    pc[c] = "idle" /\ UNCHANGED batch /\ \E a \in RunArgs : Begin(c, a)

Remember(c) ==
    /\ pc[c] = "done"
    /\ IsNone(ref)
    /\ ref' = Some([args |-> args[c], outcome |-> outcome[c],
                    raster |-> raster[c], traj |-> traj[c], since |-> 0])
    /\ UNCHANGED <<batch, weights, calls, steps, rng, nanByte, emptyOk, hooks, pc, args, image, grad, optSteps,
                   hookAct, activation, iteration, cbLog, traj, outcome,
                   raster>>

NextRuns ==
    \/ StartRun(MainThread)
    \/ RegisterHook(MainThread)
    \/ Forward(MainThread)
    \/ LoopExit(MainThread)
    \/ GetActivation(MainThread)
    \/ Backward(MainThread)
    \/ OptimizerStep(MainThread)
    \/ TVRegularize(MainThread)
    \/ Blur(MainThread)
    \/ Clamp(MainThread)
    \/ Progress(MainThread)
    \/ Finally(MainThread)
    \/ Convert(MainThread)
    \/ Return(MainThread)
    \/ Remember(MainThread)

SpecRuns == Init /\ [][NextRuns]_vars

\* ----------------------------------------------------- concurrent callers
\* Two threads calling generate_image on the same FeatureVisualizer, their
\* steps interleaved.  Each thread owns its image, its optimizer and its
\* hook object; the network and the hooks registered on its modules are
\* shared.
ConcArgs ==
    { a \in ArgSet :
        /\ a.layer_name \in { <<"visual", "pre">>, <<"visual", "conv1">> }
        /\ a.neuron_index = Some(0)
        /\ a.image_size = MaxSize
        /\ a.num_iterations \in 1..2
        /\ a.blur_every = MaxBlur
        /\ a.seed = Some(0)
        /\ a.progress_callback = "none" }

StartConc(c) ==
    pc[c] = "idle" /\ UNCHANGED batch /\ \E a \in ConcArgs : Begin(c, a)

NextConc ==
    \E c \in Threads :
        \/ StartConc(c)
        \/ RegisterHook(c)
        \/ Forward(c)
        \/ LoopExit(c)
        \/ GetActivation(c)
        \/ Backward(c)
        \/ OptimizerStep(c)
        \/ TVRegularize(c)
        \/ Blur(c)
        \/ Clamp(c)
        \/ Progress(c)
        \/ Finally(c)
        \/ Convert(c)
        \/ Return(c)

SpecConc == Init /\ [][NextConc]_vars


\* --------------------------------------------------------- directory calls
\* A caller of the LayerInspector built on the same network: each call is
\* recorded with the path it was given and what it returned or raised.
DirPaths ==
    ExtractLayers \cup
    { Visual, <<"visual", "_aux">>, <<"visual", "proj">>, <<"transformer">>,
      <<"visual", "nosuch">> }

Record(op, path, result) ==
    Append(calls, [op |-> op, path |-> path, result |-> result])

\* What a directory call leaves alone: everything but the record of calls.
engineVars ==
    <<rng, nanByte, emptyOk, hooks, pc, args, image, grad, optSteps, hookAct,
      activation, iteration, cbLog, traj, outcome, raster, ref, weights,
      steps, batch>>

CallGetLayerNames ==
    /\ Len(calls) < MaxCalls
    /\ calls' = Record("get_layer_names", << >>,
                       [raised |-> "none", value |-> GetLayerNamesList])
    /\ UNCHANGED engineVars

CallGetLayerInfo ==
    /\ Len(calls) < MaxCalls
    /\ \E path \in DirPaths :
         calls' = Record("get_layer_info", path, GetLayerInfo(path))
    /\ UNCHANGED engineVars

CallGetNeuronNames ==
    /\ Len(calls) < MaxCalls
    /\ \E path \in DirPaths :
         calls' = Record("get_neuron_names", path, GetNeuronNames(path))
    /\ UNCHANGED engineVars

NextDir ==
    \/ CallGetLayerNames
    \/ CallGetLayerInfo
    \/ CallGetNeuronNames

\* The directory does not depend on the platform of the conversion: one
\* platform is enough.
InitDir == Init /\ nanByte = 0 /\ emptyOk

SpecDir == InitDir /\ [][NextDir]_vars

\* --------------------------------------------- directory and engine lookup
\* A caller that asks the LayerInspector for its names and for the module
\* under a name, and the FeatureVisualizer built on the same network for
\* the module under the same string.
CallGetLayer ==
    /\ Len(calls) < MaxCalls
    /\ \E path \in DirPaths :
         calls' = Record("get_layer", path,
                         [raised |-> "none", value |-> GetLayer(path)])
    /\ UNCHANGED engineVars

CallGetLayerByName ==
    /\ Len(calls) < MaxCalls
    /\ \E path \in DirPaths :
         calls' = Record("_get_layer_by_name", path,
                         [raised |-> "none",
                          value |-> GetLayerByNameStr(Dotted(path))])
    /\ UNCHANGED engineVars

NextLookup ==
    \/ CallGetLayerNames
    \/ CallGetLayer
    \/ CallGetLayerByName

SpecLookup == InitDir /\ [][NextLookup]_vars

\* ------------------------------------------------------------ batch_generate
\* What batch_generate itself leaves alone outside a generate_image call.
callVars ==
    <<rng, nanByte, emptyOk, hooks, pc, args, image, grad, optSteps, hookAct,
      activation, iteration, cbLog, traj, outcome, raster, ref, weights,
      calls, steps>>

\* batch_generate up to its loop: the layer test, the unit names, the
\* clipped range and the empty metadata.  range() raises ValueError on a
\* step of 0.
BatchBegin ==
    /\ batch.phase = "idle"
    /\ \E in \in BatchInputs :
         LET names == GetNeuronNames(in.layer_name)
             end == ClipEnd(in.end, Len(names.value))
             called == [NoBatch EXCEPT
                          !.layer_name = in.layer_name, !.start = in.start,
                          !.end = in.end, !.step = in.step,
                          !.iterations = in.iterations,
                          !.skip_existing = in.skip_existing,
                          !.files = in.files]
         IN  batch' =
               IF \A k \in 1..Len(GetLayerNamesList) :
                      GetLayerNamesList[k] # in.layer_name
               THEN [called EXCEPT !.phase = "returned"]
               ELSE IF names.raised # "none"
               THEN [called EXCEPT !.phase = "raised"]
               ELSE IF in.step = 0
               THEN [called EXCEPT !.phase = "raised",
                                   !.neuron_names = names.value]
               ELSE [called EXCEPT
                       !.phase = "loop", !.neuron_names = names.value,
                       !.neuron_indices = PyRange(in.start, end, in.step)]
    /\ UNCHANGED callVars

\* The index the loop is at.
AtIndex == batch.phase = "loop" /\ batch.i <= Len(batch.neuron_indices)
NeuronIdx == batch.neuron_indices[batch.i]
Logged(what) ==
    Append(batch.log, [idx |-> NeuronIdx, what |-> what,
                       existed |-> NeuronIdx \in batch.files])

\* if neuron_idx >= len(neuron_names): print and continue.
BatchOutOfRange ==
    /\ AtIndex
    /\ NeuronIdx >= Len(batch.neuron_names)
    /\ batch' = [batch EXCEPT !.i = @ + 1, !.log = Logged("out_of_range")]
    /\ UNCHANGED callVars

\* neuron_names[neuron_idx] raises IndexError below -len(neuron_names);
\* it is outside the try block.
BatchIndexError ==
    /\ AtIndex
    /\ NeuronIdx < 0 - Len(batch.neuron_names)
    /\ batch' = [batch EXCEPT !.phase = "raised"]
    /\ UNCHANGED callVars

InNames ==
    /\ AtIndex
    /\ NeuronIdx < Len(batch.neuron_names)
    /\ NeuronIdx >= 0 - Len(batch.neuron_names)

\* The file is there and skip_existing is set: a "skipped" entry.
BatchSkipExisting ==
    /\ InNames
    /\ Skips(NeuronIdx \in batch.files, batch.skip_existing)
    /\ batch' =
         [batch EXCEPT
            !.i = @ + 1, !.log = Logged("skipped"),
            !.metadata =
               [k \in DOMAIN @ \cup {NeuronIdx} |->
                  IF k = NeuronIdx
                  THEN [name |-> NeuronName(batch.neuron_names, NeuronIdx),
                        status |-> "skipped"]
                  ELSE @[k]]]
    /\ UNCHANGED callVars

\* try: visualizer.generate_image(...) is called.
BatchCall ==
    /\ InNames
    /\ ~Skips(NeuronIdx \in batch.files, batch.skip_existing)
    /\ batch' = [batch EXCEPT !.phase = "calling", !.log = Logged("generate")]
    /\ Begin(MainThread,
             GenerateArgs(batch.layer_name, NeuronIdx, batch.iterations))

\* The call is over: image.save(filepath) and a "success" entry, or the
\* except clause and an "error" entry.  image.save can fail as well.
BatchRecord ==
    /\ batch.phase = "calling"
    /\ pc[MainThread] = "done"
    /\ \E saved \in BOOLEAN :
         LET ok == outcome[MainThread] = "image" /\ saved
         IN  batch' =
               [batch EXCEPT
                  !.phase = "loop", !.i = @ + 1,
                  !.files = IF ok THEN @ \cup {NeuronIdx} ELSE @,
                  !.failed = IF outcome[MainThread] = "image" THEN @
                             ELSE @ \cup {NeuronIdx},
                  !.metadata =
                     [k \in DOMAIN @ \cup {NeuronIdx} |->
                        IF k = NeuronIdx
                        THEN [name |-> NeuronName(batch.neuron_names,
                                                  NeuronIdx),
                              status |-> IF ok THEN "success" ELSE "error"]
                        ELSE @[k]]]
    /\ Leave(MainThread)

\* The loop is over: the metadata file is written.
BatchEnd ==
    /\ batch.phase = "loop"
    /\ batch.i > Len(batch.neuron_indices)
    /\ batch' = [batch EXCEPT !.phase = "done"]
    /\ UNCHANGED callVars

\* One batch_generate call.  The layers it calls generate_image for have
\* units, so none of them is the pass-through stage, and no call gets past
\* loss.backward(): the steps after it are not part of this specification.
NextBatch ==
    \/ BatchBegin
    \/ BatchOutOfRange
    \/ BatchIndexError
    \/ BatchSkipExisting
    \/ BatchCall
    \/ RegisterHook(MainThread)
    \/ Forward(MainThread)
    \/ LoopExit(MainThread)
    \/ GetActivation(MainThread)
    \/ Backward(MainThread)
    \/ Finally(MainThread)
    \/ Convert(MainThread)
    \/ BatchRecord
    \/ BatchEnd

SpecBatch == InitDir /\ [][NextBatch]_vars

\* ----------------------------------------------------------- sanity checks
TypeOK ==
    /\ rng \in 0..(RngMod - 1)
    /\ nanByte \in NanBytes
    /\ emptyOk \in BOOLEAN
    /\ \A m \in Modules : hooks[m] \subseteq Threads
    /\ \A c \in Threads :
        /\ pc[c] \in {"idle", "resolve", "loop", "activation", "backward",
                      "step", "tv", "blur", "clamp", "progress", "finally",
                      "convert", "done"}
        /\ \/ args[c] \in ArgSet \cup {NoArgs}
           \/ \E idx \in (-1)..MaxIndex :
                args[c] = GenerateArgs(batch.layer_name, idx,
                                       batch.iterations)
        /\ iteration[c] \in 0..MaxIter
        /\ optSteps[c] \in 0..MaxIter
        /\ Len(traj[c]) = iteration[c]
        /\ outcome[c] \in {"none", "image", "ValueError", "AttributeError",
                           "RuntimeError", "IndexError", "ZeroDivisionError",
                           "CallbackError"}
    /\ weights \in [Parameters -> Int]
    /\ Len(calls) <= MaxCalls
    /\ \A c \in Threads : \A k \in 1..Len(steps[c]) :
        /\ steps[c][k].iter \in 0..(MaxIter - 1)
        /\ steps[c][k].op \in {"step", "tv", "blur", "clamp", "callback"}
    /\ \A k \in 1..Len(calls) :
        /\ calls[k].op \in {"get_layer_names", "get_layer_info",
                            "get_neuron_names", "get_layer",
                            "_get_layer_by_name"}
        /\ calls[k].result.raised \in {"none", "AttributeError"}
    /\ batch.phase \in {"idle", "returned", "raised", "loop", "calling", "done"}
    /\ batch.i \in 1..(Len(batch.neuron_indices) + 1)
    /\ \A k \in DOMAIN batch.metadata :
         batch.metadata[k].status \in {"skipped", "success", "error"}
    /\ \A k \in 1..Len(batch.log) :
         batch.log[k].what \in {"out_of_range", "skipped", "generate"}

\* Only a call on the pass-through stage gets past loss.backward().
LoopNeedsGraph ==
    \A c \in Threads :
        pc[c] \in {"step", "tv", "blur", "clamp", "progress"}
            => ReturnsItsInput(Target(c))


\* On the pass-through stage, a call that returns an image has blurred it
\* in exactly the iterations in which (iteration + 1) % blur_every = 0.
BlurScheduleWhenCompleted ==
    \A c \in Threads :
        (pc[c] = "done" /\ outcome[c] = "image" /\ args[c].blur_every >= 1)
            => \A k \in 0..(args[c].num_iterations - 1) :
                 Cardinality({ i \in 1..Len(steps[c]) :
                                 /\ steps[c][i].iter = k
                                 /\ steps[c][i].op = "blur" })
                    = IF BlurDue(k, args[c].blur_every) THEN 1 ELSE 0


\* After the clamp of an iteration every pixel is in [-2.0, 2.0] or NaN.
ClampedOrNaN ==
    \A c \in Threads :
        ( \/ pc[c] = "progress"
          \/ (pc[c] \in {"loop", "convert"} /\ iteration[c] >= 1) )
            => \A p \in DOMAIN image[c] :
                 image[c][p] = NaN \/ image[c][p] \in ClampLo..ClampHi


\* ------------------------------------------------------------------ claims
\* Where a call stands between register_forward_hook and handle.remove().
InTry == {"loop", "activation", "backward", "step", "tv", "blur", "clamp",
          "progress", "finally"}

\* The arguments name a layer the directory lists, whose output has a unit
\* axis, and a unit index inside that axis.
ListedLayer(a) == a.layer_name \in GetLayerNames
UnitInRange(a) ==
    LET m == Val(GetLayerByName(a.layer_name))
    IN  /\ OutputRank(m) \in {2, 4}
        /\ Val(a.neuron_index) \in 0..(OutputAxisSize(m) - 1)
WellFormed(a) ==
    /\ ListedLayer(a)
    /\ UnitInRange(a)
    /\ a.image_size >= 1
    /\ a.num_iterations >= 1
    /\ a.blur_every >= 1
    /\ a.progress_callback # "raises"

\* C1: a forward hook that a generate_image call installed is on the network
\* only while that call is between installing it and the end of its finally
\* clause; once a call has returned or raised, whatever made it raise, no
\* hook of the engine is left on any module.
HookReleased ==
    \A c \in Threads : \A m \in Modules :
        c \in hooks[m] => pc[c] \in InTry

\* C1 witness: a call that a raising progress callback ended in a later
\* iteration is over and the network carries no hook.
HookReleasedAfterFailure ==
    /\ pc[MainThread] = "done"
    /\ outcome[MainThread] = "CallbackError"
    /\ iteration[MainThread] >= 1
    /\ \A m \in Modules : hooks[m] = {}

\* C2: whenever a call on a listed layer with an in-range unit index is
\* about to run loss.backward(), the activation it read from the tap is
\* attached to the autograd graph of the image, so that the backward step
\* succeeds.
BackwardHasGraph ==
    \A c \in Threads :
        (pc[c] = "backward" /\ ListedLayer(args[c]) /\ UnitInRange(args[c]))
            => activation[c].requires_grad

\* C3: a call with a listed layer, an in-range unit index and a positive
\* num_iterations ends by returning an image after exactly num_iterations
\* iterations, one optimizer step each.
RunsAllIterations ==
    \A c \in Threads :
        (pc[c] = "done" /\ WellFormed(args[c]))
            => /\ outcome[c] = "image"
               /\ iteration[c] = args[c].num_iterations
               /\ optSteps[c] = args[c].num_iterations

\* C4: a call that completes with the same arguments, a seed among them, as
\* a call remembered from earlier has the same outcome and returns the same
\* raster, whatever calls were made before and between the two.
SameSeedSameRaster ==
    \A c \in Threads :
        ( /\ pc[c] = "done"
          /\ ~IsNone(ref)
          /\ ~IsNone(args[c].seed)
          /\ Val(ref).args = args[c] )
            => /\ Val(ref).outcome = outcome[c]
               /\ Val(ref).raster = raster[c]

\* C4 witness: a seeded run of at least one iteration returned an image, and
\* so did a remembered earlier run with the same arguments, with another
\* call completed between the two.
SeededRunRepeated ==
    /\ pc[MainThread] = "done"
    /\ ~IsNone(ref)
    /\ Val(ref).since >= 2
    /\ ~IsNone(args[MainThread].seed)
    /\ Val(ref).args = args[MainThread]
    /\ args[MainThread].num_iterations >= 1
    /\ outcome[MainThread] = "image"
    /\ Val(ref).outcome = "image"

\* C5: a call with num_iterations <= 0 or image_size <= 0 (its layer listed
\* and its unit index in range) is rejected: it ends without returning an
\* image.
RejectsNonPositive ==
    \A c \in Threads :
        ( /\ pc[c] = "done"
          /\ ListedLayer(args[c])
          /\ UnitInRange(args[c])
          /\ (args[c].num_iterations <= 0 \/ args[c].image_size <= 0) )
            => outcome[c] # "image"

\* C6: on a listed layer, a unit index outside 0..size-1 of its unit axis is
\* never turned into a scalar activation (it is neither clamped nor wrapped),
\* and a call of at least one iteration with such an index ends without an
\* image and without an optimizer step.
OutOfRangeUnitFails ==
    \A c \in Threads :
        LET a == args[c]
            found == GetLayerByName(a.layer_name)
            onAxis == /\ ListedLayer(a)
                      /\ OutputRank(Val(found)) \in {2, 4}
        IN  (onAxis /\ ~UnitInRange(a))
                => /\ pc[c] # "backward"
                   /\ (pc[c] = "done" /\ a.num_iterations >= 1 /\ a.image_size >= 1)
                        => (outcome[c] # "image" /\ optSteps[c] = 0)

\* C7: for a layer path that get_layer_names() does not list, the call
\* raises the layer-not-found ValueError at resolution: it installs no hook
\* and enters no iteration.
UnlistedLayerNotFound ==
    \A c \in Threads :
        ( /\ pc[c] \notin {"idle", "resolve"}
          /\ args[c].image_size >= 0
          /\ ~ListedLayer(args[c]) )
            => (pc[c] = "done" /\ outcome[c] = "ValueError")

\* C8: an output of the tapped layer whose rank is neither 4 nor 2 is never
\* reduced to a scalar activation with which the iteration goes on.
UnsupportedRankFails ==
    \A c \in Threads :
        (pc[c] = "backward" /\ ~IsNone(hookAct[c]))
            => OutputRank(Val(hookAct[c]).layer) \in {2, 4}

\* The 1-indexed iterations of a run of n at which the callback is due.
RECURSIVE DueUpTo(_, _)
DueUpTo(k, n) ==
    IF k = 0 THEN << >>
    ELSE IF k % Max(1, n \div 20) = 0
         THEN Append(DueUpTo(k - 1, n), k)
         ELSE DueUpTo(k - 1, n)

\* C9: a run of n >= 1 iterations with a callback that returns has invoked
\* it, when the call is over, exactly at the iterations i of 1..n with
\* i % max(1, n // 20) = 0, in increasing order, with arguments (i, n, _).
ProgressSchedule ==
    \A c \in Threads :
        ( /\ pc[c] = "done"
          /\ WellFormed(args[c])
          /\ args[c].progress_callback = "returns" )
            => /\ Len(cbLog[c]) = Len(DueUpTo(args[c].num_iterations,
                                              args[c].num_iterations))
               /\ \A k \in 1..Len(cbLog[c]) :
                    /\ cbLog[c][k][1] =
                         DueUpTo(args[c].num_iterations,
                                 args[c].num_iterations)[k]
                    /\ cbLog[c][k][2] = args[c].num_iterations

\* Two argument records that differ at most in the progress callback.
SameButCallback(a, b) ==
    [a EXCEPT !.progress_callback = "none"]
        = [b EXCEPT !.progress_callback = "none"]

\* C10: a seeded run with a callback that returns and a seeded run without
\* a callback, otherwise with the same arguments, go through the same
\* sequence of images, end the same way and return the same raster,
\* whatever the callback returned.
CallbackIsObservational ==
    \A c \in Threads :
        ( /\ pc[c] = "done"
          /\ ~IsNone(ref)
          /\ ~IsNone(args[c].seed)
          /\ SameButCallback(Val(ref).args, args[c])
          /\ Val(ref).args.progress_callback # args[c].progress_callback )
            => /\ Val(ref).traj = traj[c]
               /\ Val(ref).outcome = outcome[c]
               /\ Val(ref).raster = raster[c]

\* C10 witness: a run of several iterations whose callback was invoked
\* returned an image, and is compared with a remembered run that had no
\* callback.
CallbackRunCompared ==
    /\ pc[MainThread] = "done"
    /\ ~IsNone(ref)
    /\ ~IsNone(args[MainThread].seed)
    /\ SameButCallback(Val(ref).args, args[MainThread])
    /\ Val(ref).args.progress_callback = "none"
    /\ args[MainThread].progress_callback = "returns"
    /\ Len(cbLog[MainThread]) >= 2
    /\ outcome[MainThread] = "image"

\* C11: with two calls running concurrently on the same network, the
\* activation a call is about to differentiate is the output that its own
\* forward pass produced at its target layer, never an output captured from
\* the other call's forward pass.
ReadsOwnActivation ==
    \A c \in Threads :
        pc[c] = "backward"
            => /\ activation[c].owner = c
               /\ Val(hookAct[c]).layer = Target(c)

\* C12: the raster a call returns has exactly image_size x image_size x 3
\* values, one per row, column and channel, each of them a byte in 0..255,
\* whether the loop ran or the image is still the initial random one.
RasterShapeAndRange ==
    \A c \in Threads :
        outcome[c] = "image"
            => LET s == args[c].image_size
               IN  /\ DOMAIN raster[c] =
                        (0..(s - 1)) \X (0..(s - 1)) \X (0..2)
                   /\ Cardinality(DOMAIN raster[c]) = s * s * 3
                   /\ \A q \in DOMAIN raster[c] : raster[c][q] \in 0..255

\* C12 witness: a raster returned after at least one iteration, of the
\* largest size, holds both the byte 0 and the byte 255, from pixels whose
\* denormalized value lies below 0 and above 1.
RasterHitsBothEnds ==
    /\ outcome[MainThread] = "image"
    /\ args[MainThread].image_size = MaxSize
    /\ optSteps[MainThread] >= 1
    /\ \E q \in DOMAIN raster[MainThread] :
         /\ raster[MainThread][q] = 0
         /\ ToByteUnclamped(image[MainThread][<<q[3], q[1], q[2]>>], q[3], 0) < 0
    /\ \E q \in DOMAIN raster[MainThread] :
         /\ raster[MainThread][q] = 255
         /\ ToByteUnclamped(image[MainThread][<<q[3], q[1], q[2]>>], q[3], 0) > 255

\* The entries of a list.
Range(list) == { list[i] : i \in 1..Len(list) }

\* C13: every call of get_layer_names() returns the same list, which is in
\* ascending lexicographic order of the dotted names and has no name twice;
\* and get_layer_info of a name in that list returns a description that is
\* not empty and whose 'name' is that name.
LayerNamesStable ==
    \A j \in 1..Len(calls) :
        calls[j].op = "get_layer_names"
            => LET names == calls[j].result.value IN
               /\ calls[j].result.raised = "none"
               /\ \A i \in 1..Len(calls) :
                    calls[i].op = "get_layer_names"
                        => calls[i].result = calls[j].result
               /\ \A a, b \in 1..Len(names) :
                    a < b => StrLess(Dotted(names[a]), Dotted(names[b]))
               /\ \A i \in 1..Len(calls) :
                    (calls[i].op = "get_layer_info"
                        /\ calls[i].path \in Range(names))
                        => /\ calls[i].result.raised = "none"
                           /\ ~calls[i].result.value.empty
                           /\ calls[i].result.value.name = calls[i].path

\* C13 witness: get_layer_names was called twice and returned several names,
\* one of them a proper prefix of the next, and get_layer_info was called
\* on a name of the list.
LayerNamesListedTwice ==
    /\ Len(calls) = 3
    /\ calls[1].op = "get_layer_names"
    /\ calls[2].op = "get_layer_info"
    /\ calls[3].op = "get_layer_names"
    /\ Len(calls[1].result.value) >= 4
    /\ calls[1].result.value[1] = <<"visual", "blocks">>
    /\ calls[1].result.value[2] = <<"visual", "blocks", "0">>
    /\ calls[2].path \in Range(calls[3].result.value)

\* The declared output-axis size of a module: out_features, else
\* out_channels, else the leading dimension of its weight, else none (0);
\* the same without out_channels; and the category of its unit names.
DeclaredSize(m) ==
    IF ~IsNone(OutFeatures(m)) THEN Val(OutFeatures(m))
    ELSE IF ~IsNone(OutChannels(m)) THEN Val(OutChannels(m))
    ELSE IF ~IsNone(Weight(m)) /\ ~IsNone(Val(Weight(m)))
              /\ Val(Val(Weight(m))) # << >>
         THEN Head(Val(Val(Weight(m))))
         ELSE 0
DeclaredWidth(m) ==
    IF ~IsNone(OutFeatures(m)) THEN Val(OutFeatures(m))
    ELSE IF ~IsNone(Weight(m)) /\ ~IsNone(Val(Weight(m)))
              /\ Val(Val(Weight(m))) # << >>
         THEN Head(Val(Val(Weight(m))))
         ELSE 0
Category(m) ==
    CASE TypeName(m) = "Linear" -> "neuron"
      [] TypeName(m) = "Conv2d" -> "channel"
      [] OTHER -> "unit"

\* The list returned by a get_neuron_names call has n names, the i-th of
\* them <category>_<i-1>.
ListsUnits(call, n) ==
    /\ call.result.raised = "none"
    /\ Len(call.result.value) = n
    /\ \A i \in 1..n :
         call.result.value[i] = <<Category(LayersInfo[call.path]), i - 1>>

StepRank(op) ==
    CASE op = "step" -> 1 [] op = "tv" -> 2 [] op = "blur" -> 3
      [] op = "clamp" -> 4 [] op = "callback" -> 5

\* The positions in log of the steps `op` of iteration k.
StepsOf(log, k, op) ==
    { i \in 1..Len(log) : log[i].iter = k /\ log[i].op = op }

\* C16: what a call does to its image comes in this order: within an
\* iteration the optimizer step, then the total-variation subtraction, then
\* the blur (in iterations where it is due only), then the clamp, each at
\* most once and none without the ones before it; the callback of the
\* iteration comes after its clamp, and nothing of iteration k+1 comes
\* before the clamp of iteration k.
IterationOrder ==
    \A c \in Threads :
        LET log == steps[c]
            b == args[c].blur_every
        IN  /\ \A i, j \in 1..Len(log) :
                 i < j => \/ log[i].iter < log[j].iter
                          \/ /\ log[i].iter = log[j].iter
                             /\ StepRank(log[i].op) < StepRank(log[j].op)
            /\ \A i \in 1..Len(log) :
                 LET k == log[i].iter
                     before(op) == \E j \in 1..(i - 1) :
                                      log[j].iter = k /\ log[j].op = op
                 IN  /\ log[i].op = "tv" => before("step")
                     /\ log[i].op = "blur"
                          => (before("tv") /\ b >= 1 /\ BlurDue(k, b))
                     /\ log[i].op = "clamp"
                          => /\ before("tv")
                             /\ (b >= 1 /\ BlurDue(k, b)) => before("blur")
                     /\ log[i].op = "callback" => before("clamp")
                     /\ k >= 1 => StepsOf(log, k - 1, "clamp") # {}

\* C16 witness: a call is past its second iteration; the first had no blur,
\* the second had one, and the callback was invoked in both.
TwoIterationsLogged ==
    LET log == steps[MainThread]
    IN  /\ Len(log) = 9
        /\ [i \in 1..9 |-> log[i].op] =
             <<"step", "tv", "clamp", "callback",
               "step", "tv", "blur", "clamp", "callback">>
        /\ [i \in 1..9 |-> log[i].iter] = <<0, 0, 0, 0, 1, 1, 1, 1, 1>>

\* The iterations in which a call has blurred its image.
BlurredIn(c) ==
    { k \in 0..(MaxIter - 1) : StepsOf(steps[c], k, "blur") # {} }

\* C17: a call with a listed layer, an in-range unit index, n >= 1
\* iterations and blur_every >= 1 has, when it is over, blurred its image in
\* exactly the iterations k of 0..n-1 with (k + 1) % blur_every = 0, once
\* each: floor(n / blur_every) times, and not in iteration 0 unless
\* blur_every = 1.
BlurSchedule ==
    \A c \in Threads :
        (pc[c] = "done" /\ WellFormed(args[c]))
            => LET n == args[c].num_iterations
                   b == args[c].blur_every
               IN  /\ BlurredIn(c) = { k \in 0..(n - 1) : (k + 1) % b = 0 }
                   /\ \A k \in BlurredIn(c) :
                        Cardinality(StepsOf(steps[c], k, "blur")) = 1
                   /\ Cardinality(BlurredIn(c)) = n \div b
                   /\ 0 \in BlurredIn(c) => b = 1

\* C18: whenever a call has finished an iteration (it is past the clamp of
\* that iteration), and so whenever it hands its image to the conversion
\* after at least one iteration, every pixel of the image is in [-2.0, 2.0].
ClampedAtIterationEnd ==
    \A c \in Threads :
        ( \/ pc[c] = "progress"
          \/ (pc[c] \in {"loop", "convert"} /\ iteration[c] >= 1) )
            => \A p \in DOMAIN image[c] : image[c][p] \in ClampLo..ClampHi

\* round(255 * clamp(pixel * std + mean, 0, 1)) for a pixel v of channel ch.
RoundedByte(v, ch) ==
    LET d == v * StdE4[ch + 1] + MeanE6[ch + 1]
        cl == Max(0, Min(1000000, d))
    IN  (2 * cl * 255 + 1000000) \div 2000000

\* C19: every byte of the raster that a call with a listed layer, an
\* in-range unit index and positive size and iteration count returns is the
\* denormalized pixel, clamped to [0, 1], scaled by 255 and rounded to the
\* nearest integer.
ConversionRounds ==
    \A c \in Threads :
        (outcome[c] = "image" /\ WellFormed(args[c]))
            => \A q \in DOMAIN raster[c] :
                 LET v == image[c][<<q[3], q[1], q[2]>>]
                 IN  v # NaN => raster[c][q] = RoundedByte(v, q[3])

\* C20: whatever calls of generate_image were made, completed, failed or
\* still running, every parameter of the network has the value it had when
\* the FeatureVisualizer was constructed.
ParametersFrozen ==
    \A p \in Parameters : weights[p] = InitialWeights[p]

\* C20 witness: a call has taken several optimizer steps on its image, with
\* a gradient, and returned an image; the parameters are as they were.
ImageOptimizedParametersKept ==
    /\ pc[MainThread] = "done"
    /\ outcome[MainThread] = "image"
    /\ optSteps[MainThread] >= 2
    /\ ~IsNone(grad[MainThread])
    /\ Len(traj[MainThread]) >= 2
    /\ traj[MainThread][1] # traj[MainThread][2]
    /\ weights = InitialWeights

\* C21: for every name that get_layer_names() returns, _get_layer_by_name of
\* the FeatureVisualizer on the same network finds something under that
\* name, and what it finds is the module that get_layer of the
\* LayerInspector returns for it.
DirectoryEngineAgree ==
    \A i, j \in 1..Len(calls) :
        ( /\ calls[i].op = "get_layer_names"
          /\ calls[j].op = "_get_layer_by_name"
          /\ calls[j].path \in Range(calls[i].result.value) )
            => /\ ~IsNone(calls[j].result.value)
               /\ \A k \in 1..Len(calls) :
                    (calls[k].op = "get_layer" /\ calls[k].path = calls[j].path)
                        => calls[k].result.value = calls[j].result.value

\* C21 witness: the names were listed, and the nested block was looked up
\* under its listed name in the directory and in the engine; both lookups
\* gave the block.
NestedLayerLookedUpBothWays ==
    /\ Len(calls) = 3
    /\ calls[1].op = "get_layer_names"
    /\ calls[2].op = "get_layer"
    /\ calls[3].op = "_get_layer_by_name"
    /\ calls[2].path = <<"visual", "blocks", "0">>
    /\ calls[3].path = calls[2].path
    /\ calls[3].path \in Range(calls[1].result.value)
    /\ calls[2].result.value = Some(<<"visual", "blocks", "0">>)
    /\ calls[3].result.value = Some(<<"visual", "blocks", "0">>)

\* The indices the batch has dealt with so far other than by the out-of-range
\* warning, in the order it came to them.
NotOutOfRange(e) == e.what # "out_of_range"
Processed ==
    LET handled == SelectSeq(batch.log, NotOutOfRange)
    IN  [k \in 1..Len(handled) |-> handled[k].idx]

\* range(start, min(end, number of unit names), step)
ClaimedRange ==
    PyRange(batch.start, Min(batch.end, Len(batch.neuron_names)), batch.step)

BelowCount(idx) == idx < Len(batch.neuron_names)

BatchCalledWell ==
    /\ batch.phase # "idle"
    /\ batch.layer_name \in GetLayerNames
    /\ batch.start >= 0

\* The batch goes through `want` in order (up: increasing, otherwise
\* decreasing), every index it has dealt with has one metadata entry with a
\* status of the three, a failed generate_image is an "error" entry and the
\* batch goes on, and generate_image is not called over an existing file
\* while skip_existing is set.
Covers(want, up) ==
    /\ batch.phase \notin {"raised", "returned"}
    /\ Len(Processed) <= Len(want)
    /\ \A k \in 1..Len(Processed) : Processed[k] = want[k]
    /\ batch.phase = "done" => Processed = want
    /\ \A k \in 1..(Len(Processed) - 1) :
         IF up THEN Processed[k] < Processed[k + 1]
         ELSE Processed[k] > Processed[k + 1]
    /\ \A k \in 1..Len(Processed) :
         (k < Len(Processed) \/ batch.phase # "calling")
            => /\ Processed[k] \in DOMAIN batch.metadata
               /\ batch.metadata[Processed[k]].status
                     \in {"skipped", "success", "error"}
    /\ DOMAIN batch.metadata \subseteq Range(Processed)
    /\ \A idx \in batch.failed :
         /\ idx \in DOMAIN batch.metadata
         /\ batch.metadata[idx].status = "error"
    /\ \A k \in 1..Len(batch.log) :
         batch.log[k].what = "generate"
            => ~(batch.log[k].existed /\ batch.skip_existing)

\* C22 as stated: in batch_generate with a known layer and start >= 0 every
\* index of range(start, min(end, number of units), step) is processed in
\* increasing order and gets exactly one metadata entry with status skipped,
\* success or error; a failed generate_image is recorded as error and later
\* indices are still processed; generate_image is never called for an index
\* whose file exists while skip_existing is true.
BatchCoversRange ==
    (BatchCalledWell /\ batch.step # 0) => Covers(ClaimedRange, TRUE)

\* C22 amended: the statement holds for step > 0.  With step < 0 the indices
\* of the range are visited in decreasing order and those at or above the
\* number of unit names are passed over without a metadata entry; with
\* step = 0 the call raises before any index is dealt with.
BatchCoversRangeByStep ==
    BatchCalledWell =>
        /\ batch.step > 0 => Covers(ClaimedRange, TRUE)
        /\ batch.step < 0 =>
             /\ Covers(SelectSeq(ClaimedRange, BelowCount), FALSE)
             /\ \A k \in 1..Len(batch.log) :
                  /\ batch.log[k].idx = ClaimedRange[k]
                  /\ batch.log[k].what = "out_of_range"
                        <=> ~BelowCount(batch.log[k].idx)
        /\ batch.step = 0 =>
             /\ batch.phase = "raised"
             /\ batch.log = << >>
             /\ DOMAIN batch.metadata = {}

\* C22 witness: a finished batch with a positive step over two indices; the
\* generate_image call for the first failed and is an "error" entry, the
\* second was still dealt with and was skipped over its existing file.
BatchWentOnAfterFailure ==
    /\ BatchCalledWell
    /\ batch.step > 0
    /\ batch.phase = "done"
    /\ Len(Processed) = 2
    /\ Processed = ClaimedRange
    /\ Processed[1] \in batch.failed
    /\ batch.metadata[Processed[1]].status = "error"
    /\ batch.metadata[Processed[2]].status = "skipped"

====
